---- MODULE Spec2Model ----
(***************************************************************************)
(* A model of the wpilog crate: the WPILOG frame codec (writer.rs,         *)
(* reader.rs) and the writer pipeline (WPILOGWriter, RawEntry, the worker  *)
(* thread fed by an unbounded kanal channel).  The codec and the reader    *)
(* are also run on their own, by a client that holds an argument and what  *)
(* it got back (SpecInt, SpecFrame, SpecReader, SpecTryFrom, SpecHead,     *)
(* SpecArray).                                                             *)
(*                                                                         *)
(* Integers of the program are wider than TLC's: a u32 is modelled as its  *)
(* 4 little-endian bytes and a u64 as its 8 little-endian bytes, so that   *)
(* wrap-around and truncating casts are computed on the representation.    *)
(* Byte strings (Box<[u8]>, Box<str>) are sequences of 0..255.             *)
(***************************************************************************)
EXTENDS Integers, Sequences, FiniteSets, TLC

(***************************************************************************)
(* Bounds of the model.                                                    *)
(***************************************************************************)
\* frames the producers may offer to the channel in one run: a Start and a
\* Finish for each make_entry call, one for each log_data or set_metadata call
MaxFrames == 5

(***************************************************************************)
(* Fixed-width integers as little-endian byte vectors.                     *)
(***************************************************************************)
Byte == 0..255

\* n.to_le_bytes() of a small non-negative n held in k bytes
RECURSIVE LEBytes(_, _)
LEBytes(n, k) ==
    IF k = 0 THEN <<>> ELSE <<n % 256>> \o LEBytes(n \div 256, k - 1)

\* u32 and u64 values of small numbers
U32(n) == LEBytes(n, 4)
U64(n) == LEBytes(n, 8)

\* u64::from(u32): zero extension
U32ToU64(v) == v \o <<0, 0, 0, 0>>

\* `as u32` of a u64: the low 4 bytes
U64AsU32(v) == SubSeq(v, 1, 4)

\* a < b on byte vectors of one width, most significant byte first
RECURSIVE VecLt(_, _, _)
VecLt(a, b, i) ==
    IF i = 0 THEN FALSE
    ELSE IF a[i] # b[i] THEN a[i] < b[i]
    ELSE VecLt(a, b, i - 1)

U64Lt(a, b) == VecLt(a, b, 8)

\* wrapping add of 1 on a byte vector, from byte i upward
RECURSIVE VecInc(_, _)
VecInc(v, i) ==
    IF i > Len(v) THEN v
    ELSE IF v[i] = 255 THEN VecInc([v EXCEPT ![i] = 0], i + 1)
    ELSE [v EXCEPT ![i] = v[i] + 1]

\* the value of a byte vector, for the vectors that fit a model integer
RECURSIVE VecToNat(_, _)
VecToNat(v, i) ==
    IF i > Len(v) THEN 0
    ELSE v[i] + 256 * VecToNat(v, i + 1)

\* 256u64.pow(k)
Pow256(k) == [i \in 1..8 |-> IF i = k + 1 THEN 1 ELSE 0]

MAX_ONE_BYTE == Pow256(1)
MAX_TWO_BYTES == Pow256(2)
MAX_THREE_BYTES == Pow256(3)
MAX_FOUR_BYTES == Pow256(4)
MAX_FIVE_BYTES == Pow256(5)
MAX_SIX_BYTES == Pow256(6)
MAX_SEVEN_BYTES == Pow256(7)

(***************************************************************************)
(* writer.rs: encode_int                                                   *)
(***************************************************************************)
\* faulty variant: the bounds taken inclusive, so that 256 goes into one byte
encode_int_Inclusive(num) ==
    IF ~U64Lt(MAX_ONE_BYTE, num) THEN SubSeq(num, 1, 1)
    ELSE IF ~U64Lt(MAX_TWO_BYTES, num) THEN SubSeq(num, 1, 2)
    ELSE IF ~U64Lt(MAX_THREE_BYTES, num) THEN SubSeq(num, 1, 3)
    ELSE IF ~U64Lt(MAX_FOUR_BYTES, num) THEN SubSeq(num, 1, 4)
    ELSE IF ~U64Lt(MAX_FIVE_BYTES, num) THEN SubSeq(num, 1, 5)
    ELSE IF ~U64Lt(MAX_SIX_BYTES, num) THEN SubSeq(num, 1, 6)
    ELSE IF ~U64Lt(MAX_SEVEN_BYTES, num) THEN SubSeq(num, 1, 7)
    ELSE num

encode_int(num) ==
    IF U64Lt(num, MAX_ONE_BYTE) THEN SubSeq(num, 1, 1)
    ELSE IF U64Lt(num, MAX_TWO_BYTES) THEN SubSeq(num, 1, 2)
    ELSE IF U64Lt(num, MAX_THREE_BYTES) THEN SubSeq(num, 1, 3)
    ELSE IF U64Lt(num, MAX_FOUR_BYTES) THEN SubSeq(num, 1, 4)
    ELSE IF U64Lt(num, MAX_FIVE_BYTES) THEN SubSeq(num, 1, 5)
    ELSE IF U64Lt(num, MAX_SIX_BYTES) THEN SubSeq(num, 1, 6)
    ELSE IF U64Lt(num, MAX_SEVEN_BYTES) THEN SubSeq(num, 1, 7)
    ELSE num

(***************************************************************************)
(* lib.rs: Record, RecordInfo, ControlData                                 *)
(***************************************************************************)
Start(name, type, metadata) ==
    [kind |-> "Start", name |-> name, type |-> type, metadata |-> metadata]

Finish == [kind |-> "Finish"]

SetMetadata(metadata) == [kind |-> "SetMetadata", metadata |-> metadata]

Data(data) == [kind |-> "Data", data |-> data]

Record(id, timestamp, info) ==
    [id |-> id, timestamp |-> timestamp, info |-> info]

IsControl(info) == info.kind \in {"Start", "Finish", "SetMetadata"}

(***************************************************************************)
(* writer.rs: Record::encode                                               *)
(***************************************************************************)
\* faulty variant: the length of a string written as a u16
LenPrefixed_U16(s) == LEBytes(Len(s), 2) \o s

\* a string field of a control payload: u32 length, then the bytes
LenPrefixed(s) == LEBytes(Len(s), 4) \o s

\* the payload of a control record: tag, target id, the kind's fields
ControlPayload(id, ctrl) ==
    IF ctrl.kind = "Start"
    THEN <<0>> \o id \o LenPrefixed(ctrl.name) \o LenPrefixed(ctrl.type)
             \o LenPrefixed(ctrl.metadata)
    ELSE IF ctrl.kind = "Finish"
    THEN <<1, id[1], id[2], id[3], id[4]>>
    ELSE <<2>> \o id \o LenPrefixed(ctrl.metadata)

\* the control byte of a control frame: the id-length bits stay 0
ControlBitfield(size_data, timestamp_data) ==
    (((Len(size_data) - 1) % 4) * 4) + (((Len(timestamp_data) - 1) % 8) * 16)

\* the control byte of a data frame
DataBitfield(id_data, size_data, timestamp_data) ==
    ((Len(id_data) - 1) % 4)
    + (((Len(size_data) - 1) % 4) * 4)
    + (((Len(timestamp_data) - 1) % 8) * 16)

\* faulty variant: the target id written into the id field, as in a data frame
EncodeControl_TargetAsId(rec) ==
    LET timestamp_data == encode_int(rec.timestamp)
        id_data == encode_int(U32ToU64(rec.id))
        data == ControlPayload(rec.id, rec.info)
        size_data == encode_int(U64(Len(data)))
    IN  <<DataBitfield(id_data, size_data, timestamp_data)>> \o id_data
            \o size_data \o timestamp_data \o data

EncodeControl(rec) ==
    LET timestamp_data == encode_int(rec.timestamp)
        data == ControlPayload(rec.id, rec.info)
        size_data == encode_int(U64(Len(data)))
    IN  <<ControlBitfield(size_data, timestamp_data)>> \o <<0>> \o size_data
            \o timestamp_data \o data

\* what a data frame holds before its payload: the control byte and the
\* three fields, for a payload of `len` bytes (data.len() as u64)
EncodeDataHead(id, timestamp, len) ==
    LET timestamp_data == encode_int(timestamp)
        id_data == encode_int(U32ToU64(id))
        size_data == encode_int(len)
    IN  <<DataBitfield(id_data, size_data, timestamp_data)>> \o id_data
            \o size_data \o timestamp_data

EncodeData(rec) ==
    EncodeDataHead(rec.id, rec.timestamp, U64(Len(rec.info.data)))
        \o rec.info.data

Encode(rec) ==
    IF IsControl(rec.info) THEN EncodeControl(rec) ELSE EncodeData(rec)

(***************************************************************************)
(* lib.rs: the file header                                                 *)
(***************************************************************************)
\* b"WPILOG"
HEADER_STRING == <<87, 80, 73, 76, 79, 71>>

\* 0x0100u16.to_le_bytes()
HEADER_VERSION == <<0, 1>>

\* faulty variant: the length of the extra header is left out
FileHeader_NoLength == HEADER_STRING \o HEADER_VERSION

\* what WPILOGWriter::new writes before it starts the worker
FileHeader == HEADER_STRING \o HEADER_VERSION \o <<0, 0, 0, 0>>

(***************************************************************************)
(* The state of a client of the codec and of the reader: what it passes    *)
(* in and what it gets back.  The writer pipeline leaves it alone.         *)
(***************************************************************************)
VARIABLES
    target,      \* the width of usize in the build: 32 or 64 bits
    arg,         \* what the client started from (a u64, a Record, ...)
    encoded,     \* bytes: of encode_int, of Record::encode, or a byte source
    decoded,     \* what read_variable_int or try_from returned, <<>> before
    reader,      \* the WPILOGReader: position, extra_header, or the error
    plain        \* the PlainRecords the client holds, in the order it got them

codecVars == <<target, arg, encoded, decoded, reader, plain>>

\* the client before it has done anything
CodecIdle ==
    /\ arg = <<>>
    /\ encoded = <<>>
    /\ decoded = <<>>
    /\ reader = [st |-> "none"]
    /\ plain = <<>>

(***************************************************************************)
(* reader.rs: WPILOGReader over a byte source `src`, read from position    *)
(* `pos` (the index of the next unread byte).                              *)
(***************************************************************************)
\* Read::read_exact of n bytes: whether the source still holds them
CanRead(src, pos, n) == pos + n - 1 <= Len(src)

\* a length read from the stream, as a model integer. Lengths of 2^24 and
\* more exceed every byte source of the model: they are reported as TooLong.
TooLong(v) == \E i \in 4..Len(v) : v[i] # 0

AsUsize(v) == VecToNat(SubSeq(v, 1, 3), 1)

\* read_variable_int: `length` bytes zero-extended to a u64
read_variable_int(src, pos, length) ==
    IF CanRead(src, pos, length)
    THEN [ok |-> TRUE,
          value |-> [i \in 1..8 |-> IF i <= length THEN src[pos + i - 1] ELSE 0],
          pos |-> pos + length]
    ELSE [ok |-> FALSE]

\* faulty variant: the version is read and not compared
new_raw_AnyVersion(src) ==
    IF ~CanRead(src, 1, 6) THEN [ok |-> FALSE, err |-> "UnexpectedEof"]
    ELSE IF SubSeq(src, 1, 6) # HEADER_STRING
    THEN [ok |-> FALSE, err |-> "Invalid Header"]
    ELSE IF ~CanRead(src, 9, 4) THEN [ok |-> FALSE, err |-> "UnexpectedEof"]
    ELSE LET length == SubSeq(src, 9, 12)
         IN  IF TooLong(length) \/ ~CanRead(src, 13, AsUsize(length))
             THEN [ok |-> FALSE, err |-> "UnexpectedEof"]
             ELSE [ok |-> TRUE,
                   extra_header |-> SubSeq(src, 13, 12 + AsUsize(length)),
                   pos |-> 13 + AsUsize(length)]

\* WPILOGReader::new_raw
new_raw(src) ==
    IF ~CanRead(src, 1, 6) THEN [ok |-> FALSE, err |-> "UnexpectedEof"]
    ELSE IF SubSeq(src, 1, 6) # HEADER_STRING
    THEN [ok |-> FALSE, err |-> "Invalid Header"]
    ELSE IF ~CanRead(src, 7, 2) THEN [ok |-> FALSE, err |-> "UnexpectedEof"]
    ELSE IF SubSeq(src, 7, 8) # HEADER_VERSION
    THEN [ok |-> FALSE, err |-> "Invalid Version"]
    ELSE IF ~CanRead(src, 9, 4) THEN [ok |-> FALSE, err |-> "UnexpectedEof"]
    ELSE LET length == SubSeq(src, 9, 12)
         IN  IF TooLong(length) \/ ~CanRead(src, 13, AsUsize(length))
             THEN [ok |-> FALSE, err |-> "UnexpectedEof"]
             ELSE [ok |-> TRUE,
                   extra_header |-> SubSeq(src, 13, 12 + AsUsize(length)),
                   pos |-> 13 + AsUsize(length)]

\* faulty variant: the payload is taken with read() in place of read_exact(),
\* so that a frame whose payload is cut short is still handed out
ReaderNext_ShortPayload(src, pos) ==
    IF ~CanRead(src, pos, 1) THEN [some |-> FALSE]
    ELSE
    LET bitfield == src[pos]
        entry == read_variable_int(src, pos + 1, (bitfield % 4) + 1)
    IN  IF ~entry.ok THEN [some |-> FALSE]
        ELSE
        LET size == read_variable_int(src, entry.pos, ((bitfield \div 4) % 4) + 1)
        IN  IF ~size.ok THEN [some |-> FALSE]
            ELSE
            LET timestamp == read_variable_int(src, size.pos,
                                ((bitfield \div 16) % 8) + 1)
            IN  IF ~timestamp.ok \/ TooLong(size.value) THEN [some |-> FALSE]
                ELSE
                LET last_byte == IF CanRead(src, timestamp.pos, AsUsize(size.value))
                                 THEN timestamp.pos + AsUsize(size.value) - 1
                                 ELSE Len(src)
                IN  [some |-> TRUE,
                     rec |-> [id |-> U64AsU32(entry.value),
                              timestamp |-> timestamp.value,
                              data |-> SubSeq(src, timestamp.pos, last_byte)],
                     pos |-> last_byte + 1]

\* Iterator::next: one PlainRecord, or None
ReaderNext(src, pos) ==
    IF ~CanRead(src, pos, 1) THEN [some |-> FALSE]
    ELSE
    LET bitfield == src[pos]
        entry_length == (bitfield % 4) + 1
        size_length == ((bitfield \div 4) % 4) + 1
        timestamp_length == ((bitfield \div 16) % 8) + 1
        entry == read_variable_int(src, pos + 1, entry_length)
    IN  IF ~entry.ok THEN [some |-> FALSE]
        ELSE
        LET size == read_variable_int(src, entry.pos, size_length)
        IN  IF ~size.ok THEN [some |-> FALSE]
            ELSE
            LET timestamp == read_variable_int(src, size.pos, timestamp_length)
            IN  IF ~timestamp.ok THEN [some |-> FALSE]
                ELSE IF TooLong(size.value)
                        \/ ~CanRead(src, timestamp.pos, AsUsize(size.value))
                THEN [some |-> FALSE]
                ELSE [some |-> TRUE,
                      rec |-> [id |-> U64AsU32(entry.value),
                               timestamp |-> timestamp.value,
                               data |-> SubSeq(src, timestamp.pos,
                                          timestamp.pos + AsUsize(size.value) - 1)],
                      pos |-> timestamp.pos + AsUsize(size.value)]

\* next() up to the payload: the control byte and the three fields it reads
\* before it allocates and reads `size` bytes
ReaderNextFields(src, pos) ==
    IF ~CanRead(src, pos, 1) THEN [some |-> FALSE]
    ELSE
    LET bitfield == src[pos]
        entry_length == (bitfield % 4) + 1
        size_length == ((bitfield \div 4) % 4) + 1
        timestamp_length == ((bitfield \div 16) % 8) + 1
        entry == read_variable_int(src, pos + 1, entry_length)
    IN  IF ~entry.ok THEN [some |-> FALSE]
        ELSE
        LET size == read_variable_int(src, entry.pos, size_length)
        IN  IF ~size.ok THEN [some |-> FALSE]
            ELSE
            LET timestamp == read_variable_int(src, size.pos, timestamp_length)
            IN  IF ~timestamp.ok THEN [some |-> FALSE]
                ELSE [some |-> TRUE,
                      entry_length |-> entry_length,
                      size_length |-> size_length,
                      timestamp_length |-> timestamp_length,
                      id |-> U64AsU32(entry.value),
                      size |-> size.value,
                      timestamp |-> timestamp.value,
                      pos |-> timestamp.pos]

\* the PlainRecords a `for` loop over the reader sees: up to the first None
RECURSIVE ReadAll(_, _)
ReadAll(src, pos) ==
    LET item == ReaderNext(src, pos)
    IN  IF item.some THEN <<item.rec>> \o ReadAll(src, item.pos) ELSE <<>>

(***************************************************************************)
(* core::str::from_utf8: whether the bytes from index i on are valid UTF-8 *)
(***************************************************************************)
IsCont(s, i) == i <= Len(s) /\ s[i] \in 128..191

\* the index of the first byte from i on that is not ASCII, Len(s) + 1 if
\* there is none (from_utf8 runs over ASCII bytes without decoding them)
NextNonAscii(s, i) ==
    IF \A j \in i..Len(s) : s[j] < 128 THEN Len(s) + 1
    ELSE CHOOSE j \in i..Len(s) :
            s[j] >= 128 /\ \A k \in i..(j - 1) : s[k] < 128

RECURSIVE Utf8From(_, _)
Utf8From(s, i) ==
    IF i > Len(s) THEN TRUE
    ELSE IF s[i] < 128 THEN Utf8From(s, NextNonAscii(s, i))
    ELSE IF s[i] \in 194..223 THEN IsCont(s, i + 1) /\ Utf8From(s, i + 2)
    ELSE IF s[i] = 224
    THEN i + 1 <= Len(s) /\ s[i + 1] \in 160..191 /\ IsCont(s, i + 2)
         /\ Utf8From(s, i + 3)
    ELSE IF s[i] \in (225..236) \cup {238, 239}
    THEN IsCont(s, i + 1) /\ IsCont(s, i + 2) /\ Utf8From(s, i + 3)
    ELSE IF s[i] = 237
    THEN i + 1 <= Len(s) /\ s[i + 1] \in 128..159 /\ IsCont(s, i + 2)
         /\ Utf8From(s, i + 3)
    ELSE IF s[i] = 240
    THEN i + 1 <= Len(s) /\ s[i + 1] \in 144..191 /\ IsCont(s, i + 2)
         /\ IsCont(s, i + 3) /\ Utf8From(s, i + 4)
    ELSE IF s[i] \in 241..243
    THEN IsCont(s, i + 1) /\ IsCont(s, i + 2) /\ IsCont(s, i + 3)
         /\ Utf8From(s, i + 4)
    ELSE IF s[i] = 244
    THEN i + 1 <= Len(s) /\ s[i + 1] \in 128..143 /\ IsCont(s, i + 2)
         /\ IsCont(s, i + 3) /\ Utf8From(s, i + 4)
    ELSE FALSE

from_utf8_ok(s) == Utf8From(s, 1)

(***************************************************************************)
(* reader.rs: impl TryFrom<PlainRecord> for Record                         *)
(***************************************************************************)
\* usize arithmetic on a 32-bit build: whether ptr + length passes 2^32, for
\* a pointer ptr into a payload and a length given by its 4 bytes; Complement32
\* is 2^32 - length, for the lengths of 2^32 - 2^24 and more
Complement32(length) ==
    (256 - length[1]) + 256 * (255 - length[2]) + 65536 * (255 - length[3])

Overflows32(ptr, length) == length[4] = 255 /\ Complement32(length) <= ptr

\* one length-prefixed string of a control payload, read at index ptr + 1
\* (ptr counts the bytes already consumed, as in the source). Where usize has
\* 32 bits, ptr + length can pass 2^32: a debug build panics at the addition,
\* a release build wraps it to a value below ptr, the length check passes and
\* the slice data[ptr..ptr + length] panics (start above end).
ReadString(data, ptr, what) ==
    IF Len(data) < ptr + 4
    THEN [ok |-> FALSE, err |-> "Not enough data for length of " \o what]
    ELSE LET length == SubSeq(data, ptr + 1, ptr + 4)
         IN  IF target = 32 /\ Overflows32(ptr + 4, length)
             THEN IF Len(data) < ptr + 4 - Complement32(length)
                  THEN [ok |-> FALSE, err |-> "Not enough data for " \o what]
                  ELSE [ok |-> FALSE, panic |-> "slice index"]
             ELSE IF TooLong(length) \/ Len(data) < ptr + 4 + AsUsize(length)
             THEN [ok |-> FALSE, err |-> "Not enough data for " \o what]
             ELSE LET bytes == SubSeq(data, ptr + 5, ptr + 4 + AsUsize(length))
                  IN  IF ~from_utf8_ok(bytes)
                      THEN [ok |-> FALSE, err |-> "Utf8Error"]
                      ELSE [ok |-> TRUE, value |-> bytes,
                            ptr |-> ptr + 4 + AsUsize(length)]

TryFromStart(record, id, ptr) ==
    LET name == ReadString(record.data, ptr, "entry name")
    IN  IF ~name.ok THEN name
        ELSE
        LET etype == ReadString(record.data, name.ptr, "entry type")
        IN  IF ~etype.ok THEN etype
            ELSE
            LET metadata == ReadString(record.data, etype.ptr, "entry metadata")
            IN  IF ~metadata.ok THEN metadata
                ELSE [ok |-> TRUE,
                      rec |-> Record(id, record.timestamp,
                                Start(name.value, etype.value, metadata.value))]

TryFromSetMetadata(record, id, ptr) ==
    LET metadata == ReadString(record.data, ptr, "entry metadata")
    IN  IF ~metadata.ok THEN metadata
        ELSE [ok |-> TRUE,
              rec |-> Record(id, record.timestamp, SetMetadata(metadata.value))]

\* faulty variant: an unknown tag is taken for Finish
TryFromControl_LaxTag(record) ==
    IF Len(record.data) = 0
    THEN [ok |-> FALSE, err |-> "Not enough data"]
    ELSE IF Len(record.data) < 1 + 4
    THEN [ok |-> FALSE, err |-> "Not enough data for entry id"]
    ELSE LET rtype == record.data[1]
             id == SubSeq(record.data, 2, 5)
         IN  IF rtype = 0 THEN TryFromStart(record, id, 5)
             ELSE IF rtype = 2 THEN TryFromSetMetadata(record, id, 5)
             ELSE [ok |-> TRUE, rec |-> Record(id, record.timestamp, Finish)]

\* the branch for record.id == 0: a control record
TryFromControl(record) ==
    IF Len(record.data) = 0
    THEN [ok |-> FALSE, err |-> "Not enough data"]
    ELSE IF Len(record.data) < 1 + 4
    THEN [ok |-> FALSE, err |-> "Not enough data for entry id"]
    ELSE LET rtype == record.data[1]
             id == SubSeq(record.data, 2, 5)
         IN  IF rtype = 0 THEN TryFromStart(record, id, 5)
             ELSE IF rtype = 1
             THEN [ok |-> TRUE, rec |-> Record(id, record.timestamp, Finish)]
             ELSE IF rtype = 2 THEN TryFromSetMetadata(record, id, 5)
             ELSE [ok |-> FALSE, err |-> "Invalid Control Record Type"]

\* faulty variant: the id is tested on its low byte only
TryFrom_LowByte(record) ==
    IF record.id[1] = 0
    THEN TryFromControl(record)
    ELSE [ok |-> TRUE,
          rec |-> Record(record.id, record.timestamp, Data(record.data))]

TryFrom(record) ==
    IF record.id = U32(0)
    THEN TryFromControl(record)
    ELSE [ok |-> TRUE,
          rec |-> Record(record.id, record.timestamp, Data(record.data))]

(***************************************************************************)
(* writer.rs: the writer pipeline.                                         *)
(*                                                                         *)
(* Threads: the owner of the WPILOGWriter (make_entry, join), the holders  *)
(* of RawEntry handles (log_data, set_metadata, drop) and the worker       *)
(* spawned by WPILOGWriter::new.  make_entry borrows the writer and join   *)
(* consumes it, so no make_entry call overlaps or follows join; the        *)
(* handles own a clone of the Sender and outlive the writer.               *)
(***************************************************************************)
VARIABLES
    id,          \* WPILOGWriter.id, the AtomicU32
    entries,     \* the make_entry calls in fetch_add order (see NewEntry)
    queue,       \* the channel: messages sent and not yet received
    worker,      \* the worker thread: "running", "exited", "panicked"
    sink,        \* the bytes the sink has taken
    flushed,     \* whether the worker's flush() returned Ok
    owner,       \* the writer: "open", "closing" (join sent Stop), "closed"
    joinResult,  \* what join returned: "none" until it returns, "Ok", "Err"
    sent,        \* history: every message a send() enqueued, in order
    last         \* history: the latest logging call, what it returned and when

writerVars ==
    <<id, entries, queue, worker, sink, flushed, owner, joinResult, sent, last>>

vars == <<writerVars, codecVars>>

\* the arguments the model gives to make_entry, log_data and set_metadata
Names == {<<88>>}
TypeNames == {<<105, 110, 116, 54, 52>>}
Metadatas == {<<>>}
\* the argument given to set_metadata: "{}"
NewMetadatas == {<<123, 125>>}
\* what TimeProvider::get_time returns
Times == {U64(0)}
\* the arguments given to log_data_with_timestamp by the n-th logging call
\* on a handle: payloads "A", "B", "C", ..., so that the stream shows their
\* order, with timestamps of one and of two bytes
LogInputs(n) == {[data |-> <<64 + n>>, timestamp |-> U64(256 * (n % 2))]}

\* enum RecvState
Msg(data) == [tag |-> "Msg", data |-> data]
Stop == [tag |-> "Stop"]

\* faulty variant: a channel that takes a message at its front
Push_Front(q, m) == <<m>> \o q

\* kanal: the unbounded channel takes a message at its back
Push(q, m) == Append(q, m)

\* faulty variant: send() keeps succeeding after the Receiver is dropped
SendOk_Always == TRUE

\* kanal: send() fails once the Receiver is dropped, which happens when the
\* worker's closure ends (break after Stop) or unwinds (a panic)
SendOk == worker = "running"

\* self.channel.send(m): enqueue or fail, never block
ChannelSend(m) ==
    IF SendOk
    THEN /\ queue' = Push(queue, m)
         /\ sent' = Append(sent, m)
    ELSE UNCHANGED <<queue, sent>>

\* what send() returns to a caller that looks at it
SendResult == IF SendOk THEN "Ok" ELSE "Err"

\* faulty variant: the increment is lost
FetchAdd_Lost(v) == v

\* AtomicU32::fetch_add(1): the new value (the old one is returned)
FetchAdd(v) == VecInc(v, 1)

\* one make_entry call: its id and arguments, its state ("pending" between
\* fetch_add and send, then "live" while the RawEntry exists, "dropped" after
\* it, or "failed" when the Start record could not be sent), and the history
\* of its handle: the records its logging calls enqueued, the number of
\* logging calls, and the writer's state when the handle was dropped
NewEntry(entry_id, name, type, metadata) ==
    [id |-> entry_id, st |-> "pending", name |-> name, type |-> type,
     metadata |-> metadata, issued |-> <<>>, ncalls |-> 0, dropPhase |-> "none"]

Pending == {c \in 1..Len(entries) : entries[c].st = "pending"}
Live == {c \in 1..Len(entries) : entries[c].st = "live"}

RECURSIVE SumCalls(_)
SumCalls(c) == IF c = 0 THEN 0 ELSE entries[c].ncalls + SumCalls(c - 1)

\* the frames already claimed by the calls made so far
Claimed == 2 * Len(entries) + SumCalls(Len(entries))

\* the state WPILOGWriter::new returns, the counter starting at `first`
WriterFresh(first) ==
    /\ id = first
    /\ entries = <<>>
    /\ queue = <<>>
    /\ worker = "running"
    /\ sink = FileHeader
    /\ flushed = FALSE
    /\ owner = "open"
    /\ joinResult = "none"
    /\ sent = <<>>
    /\ last = [op |-> "none"]

\* a run of the writer pipeline: a fresh writer on a 64-bit build, and a codec
\* client that does nothing (nothing in writer.rs depends on the width of
\* usize for the lengths the model reaches)
InitFrom(first) ==
    /\ WriterFresh(first)
    /\ target = 64
    /\ CodecIdle

Init == InitFrom(U32(1))

\* make_entry, first step: let id = self.id.fetch_add(1, Relaxed)
MakeEntryFetchAdd ==
    /\ owner = "open"
    /\ Claimed + 2 <= MaxFrames
    /\ \E name \in Names, type \in TypeNames, metadata \in Metadatas :
         entries' = Append(entries, NewEntry(id, name, type, metadata))
    /\ id' = FetchAdd(id)
    /\ UNCHANGED <<codecVars, queue, worker, sink, flushed, owner, joinResult, sent, last>>

\* faulty variant: make_entry returns the handle without sending the Start record
MakeEntrySend_NoStart ==
    \E c \in Pending :
        /\ entries' = [entries EXCEPT ![c].st = "live"]
        /\ UNCHANGED <<codecVars, id, queue, worker, sink, flushed, owner,
                       joinResult, sent, last>>

\* make_entry, second step: build the Start record, send it, return the handle
MakeEntrySend ==
    \E c \in Pending, timestamp \in Times :
        LET e == entries[c]
            record == Record(e.id, timestamp, Start(e.name, e.type, e.metadata))
        IN  /\ ChannelSend(Msg(Encode(record)))
            /\ entries' = [entries EXCEPT
                             ![c].st = IF SendOk THEN "live" ELSE "failed"]
            /\ UNCHANGED <<codecVars, id, worker, sink, flushed, owner,
                           joinResult, last>>

\* debug_assert_ne!(self.id, 0): a debug build panics before encoding a Data
\* record of id 0, a release build encodes it
DataEncodePanics(entry_id) == IF entry_id = U32(0) THEN {TRUE, FALSE} ELSE {FALSE}

\* the handle's history after a logging call
Logged(e, record, enqueued) ==
    [e EXCEPT !.ncalls = @ + 1,
              !.issued = IF enqueued THEN Append(@, record) ELSE @]

\* RawEntry::log_data / log_data_with_timestamp
LogData ==
    /\ Claimed + 1 <= MaxFrames
    /\ \E c \in Live :
       \E input \in LogInputs(entries[c].ncalls + 1) :
         LET record == Record(entries[c].id, input.timestamp, Data(input.data))
         IN  \E panics \in DataEncodePanics(entries[c].id) :
               IF panics
               THEN /\ UNCHANGED <<queue, sent>>
                    /\ entries' = [entries EXCEPT ![c] = Logged(@, record, FALSE)]
                    /\ last' = [op |-> "log_data", entry |-> c,
                                result |-> "panic", phase |-> owner]
               ELSE /\ ChannelSend(Msg(Encode(record)))
                    /\ entries' = [entries EXCEPT ![c] = Logged(@, record, SendOk)]
                    /\ last' = [op |-> "log_data", entry |-> c,
                                result |-> SendResult, phase |-> owner]
    /\ UNCHANGED <<codecVars, id, worker, sink, flushed, owner, joinResult>>

\* RawEntry::set_metadata
SetMetadataCall ==
    /\ Claimed + 1 <= MaxFrames
    /\ \E c \in Live, metadata \in NewMetadatas, timestamp \in Times :
         LET record == Record(entries[c].id, timestamp, SetMetadata(metadata))
         IN  /\ ChannelSend(Msg(Encode(record)))
             /\ entries' = [entries EXCEPT ![c] = Logged(@, record, SendOk)]
             /\ last' = [op |-> "set_metadata", entry |-> c,
                         result |-> SendResult, phase |-> owner]
    /\ UNCHANGED <<codecVars, id, worker, sink, flushed, owner, joinResult>>

\* faulty variant: dropping a handle sends nothing
DropEntry_NoFinish ==
    \E c \in Live :
        /\ entries' = [entries EXCEPT ![c].st = "dropped", ![c].dropPhase = owner]
        /\ UNCHANGED <<codecVars, id, queue, worker, sink, flushed, owner,
                       joinResult, sent, last>>

\* faulty variant: dropping a handle sends its Finish record twice
DropEntry_FinishTwice ==
    \E c \in Live, timestamp \in Times :
        LET m == Msg(Encode(Record(entries[c].id, timestamp, Finish)))
        IN  /\ IF SendOk
               THEN /\ queue' = Push(Push(queue, m), m)
                    /\ sent' = Append(Append(sent, m), m)
               ELSE UNCHANGED <<queue, sent>>
            /\ entries' = [entries EXCEPT ![c].st = "dropped",
                                          ![c].dropPhase = owner]
            /\ UNCHANGED <<codecVars, id, worker, sink, flushed, owner,
                           joinResult, last>>

\* impl Drop for RawEntry: send Finish, ignore the result
DropEntry ==
    \E c \in Live, timestamp \in Times :
        LET record == Record(entries[c].id, timestamp, Finish)
        IN  /\ ChannelSend(Msg(Encode(record)))
            /\ entries' = [entries EXCEPT ![c].st = "dropped",
                                          ![c].dropPhase = owner]
            /\ UNCHANGED <<codecVars, id, worker, sink, flushed, owner,
                           joinResult, last>>

\* join, first step: self.channel.send(RecvState::Stop)?
JoinSendStop ==
    /\ owner = "open"
    /\ Pending = {}
    /\ ChannelSend(Stop)
    /\ owner' = IF SendOk THEN "closing" ELSE "closed"
    /\ joinResult' = IF SendOk THEN "none" ELSE "Err"
    /\ UNCHANGED <<codecVars, id, entries, worker, sink, flushed, last>>

\* faulty variant: join returns Ok without waiting for the worker
JoinWait_NoWait ==
    /\ owner = "closing"
    /\ owner' = "closed"
    /\ joinResult' = "Ok"
    /\ UNCHANGED <<codecVars, id, entries, queue, worker, sink, flushed, sent,
                   last>>

\* faulty variant: join waits for the worker and discards the result of handle.join()
JoinWait_IgnoresPanic ==
    /\ owner = "closing"
    /\ worker # "running"
    /\ owner' = "closed"
    /\ joinResult' = "Ok"
    /\ UNCHANGED <<codecVars, id, entries, queue, worker, sink, flushed, sent,
                   last>>

\* faulty variant: join returns only when the worker has left its loop at Stop
JoinWait_OnlyExited ==
    /\ owner = "closing"
    /\ worker = "exited"
    /\ owner' = "closed"
    /\ joinResult' = "Ok"
    /\ UNCHANGED <<codecVars, id, entries, queue, worker, sink, flushed, sent,
                   last>>

\* join, second step: self.handle.join() returns once the worker has ended,
\* with Err when it panicked
JoinWait ==
    /\ owner = "closing"
    /\ worker # "running"
    /\ owner' = "closed"
    /\ joinResult' = IF worker = "exited" THEN "Ok" ELSE "Err"
    /\ UNCHANGED <<codecVars, id, entries, queue, worker, sink, flushed, sent,
                   last>>

\* Write::write_all(data): how many bytes reach the sink. All of them, or an
\* error that leaves the frame cut short.
WriteOutcomes(data) == {Len(data) - 1, Len(data)}

\* faulty variant: the worker takes the newest message of the queue
WorkerWrite_TakesLast ==
    /\ worker = "running"
    /\ queue # <<>>
    /\ queue[Len(queue)].tag = "Msg"
    /\ \E written \in WriteOutcomes(queue[Len(queue)].data) :
         /\ sink' = sink \o SubSeq(queue[Len(queue)].data, 1, written)
         /\ worker' = IF written = Len(queue[Len(queue)].data) THEN "running"
                      ELSE "panicked"
    /\ queue' = SubSeq(queue, 1, Len(queue) - 1)
    /\ UNCHANGED <<codecVars, id, entries, flushed, owner, joinResult, sent,
                   last>>

\* the worker's loop body for RecvState::Msg: write_all(&data).unwrap()
WorkerWrite ==
    /\ worker = "running"
    /\ queue # <<>>
    /\ Head(queue).tag = "Msg"
    /\ \E written \in WriteOutcomes(Head(queue).data) :
         /\ sink' = sink \o SubSeq(Head(queue).data, 1, written)
         /\ worker' = IF written = Len(Head(queue).data) THEN "running"
                      ELSE "panicked"
    /\ queue' = Tail(queue)
    /\ UNCHANGED <<codecVars, id, entries, flushed, owner, joinResult, sent,
                   last>>

\* faulty variant: the worker flushes on Stop and keeps receiving
WorkerStop_NoBreak ==
    /\ worker = "running"
    /\ queue # <<>>
    /\ Head(queue).tag = "Stop"
    /\ flushed' = TRUE
    /\ queue' = Tail(queue)
    /\ UNCHANGED <<codecVars, id, entries, worker, sink, owner, joinResult, sent, last>>

\* the worker's loop body for RecvState::Stop: flush().unwrap(); break
WorkerStop ==
    /\ worker = "running"
    /\ queue # <<>>
    /\ Head(queue).tag = "Stop"
    /\ \E flush_ok \in BOOLEAN :
         /\ flushed' = flush_ok
         /\ worker' = IF flush_ok THEN "exited" ELSE "panicked"
    /\ queue' = Tail(queue)
    /\ UNCHANGED <<codecVars, id, entries, sink, owner, joinResult, sent, last>>

Next ==
    \/ MakeEntryFetchAdd
    \/ MakeEntrySend
    \/ LogData
    \/ SetMetadataCall
    \/ DropEntry
    \/ JoinSendStop
    \/ JoinWait
    \/ WorkerWrite
    \/ WorkerStop

Spec == Init /\ [][Next]_vars

\* The scheduling the claims about termination rest on: the worker thread
\* keeps running while it has a message to take, each write_all and flush
\* call comes back, and the thread blocked in handle.join() runs again once
\* the worker has ended.  The producers are under no such obligation.
SpecLive ==
    /\ Init
    /\ [][Next]_vars
    /\ WF_vars(WorkerWrite)
    /\ WF_vars(WorkerStop)
    /\ WF_vars(JoinWait)

\* A writer late in its life: the state after 2^32 - 2 earlier make_entry
\* calls, taken with their records already drained and their handles gone
\* (entries and sink list only what happens from here on).
InitWrap == InitFrom(<<255, 255, 255, 255>>)

SpecWrap == InitWrap /\ [][Next]_vars

(***************************************************************************)
(* A client of encode_int and read_variable_int: it encodes a u64 and      *)
(* reads the bytes back with the length encode_int chose.                  *)
(***************************************************************************)
\* the u64 values given to encode_int: every value whose 8 bytes are each 0,
\* 1 or 255, which holds 0, 255, 256, 256^k - 1, 256^k and 2^64 - 1
IntBytes == {0, 1, 255}
Nums == [1..8 -> IntBytes]

InitInt ==
    /\ WriterFresh(U32(1))
    /\ target = 64
    /\ arg \in Nums
    /\ encoded = <<>>
    /\ decoded = <<>>
    /\ reader = [st |-> "none"]
    /\ plain = <<>>

\* encode_int(arg)
EncodeInt ==
    /\ encoded = <<>>
    /\ encoded' = encode_int(arg)
    /\ UNCHANGED <<writerVars, target, arg, decoded, reader, plain>>

\* read_variable_int(encoded.len()) on a source that holds the bytes
ReadBackInt ==
    /\ encoded # <<>>
    /\ decoded = <<>>
    /\ decoded' = <<read_variable_int(encoded, 1, Len(encoded))>>
    /\ UNCHANGED <<writerVars, target, arg, encoded, reader, plain>>

NextInt ==
    \/ EncodeInt
    \/ ReadBackInt

SpecInt == InitInt /\ [][NextInt]_vars

(***************************************************************************)
(* A client of the reader: it opens a WPILOGReader on the bytes in         *)
(* `encoded`, takes the frames in a `for` loop and converts each with      *)
(* try_into (examples/read.rs).                                            *)
(***************************************************************************)
\* the builds the crate is meant for ("doesn't target lower than 32 bit")
USIZE_BITS == {32, 64}

\* WPILOGReader::new_raw(encoded)
Open ==
    /\ reader.st = "source"
    /\ LET res == new_raw(encoded)
       IN  reader' = IF res.ok
                     THEN [st |-> "open", pos |-> res.pos,
                           extra_header |-> res.extra_header]
                     ELSE [st |-> "failed", err |-> res.err]
    /\ UNCHANGED <<writerVars, target, arg, encoded, decoded, plain>>

\* one turn of the `for` loop: next() gives a frame, or None and the loop ends
ReadNext ==
    /\ reader.st = "open"
    /\ LET item == ReaderNext(encoded, reader.pos)
       IN  IF item.some
           THEN /\ plain' = Append(plain, item.rec)
                /\ reader' = [reader EXCEPT !.pos = item.pos]
           ELSE /\ plain' = plain
                /\ reader' = [reader EXCEPT !.st = "ended"]
    /\ UNCHANGED <<writerVars, target, arg, encoded, decoded>>

\* Record::try_from on the next frame the client holds
Convert ==
    /\ Len(decoded) < Len(plain)
    /\ decoded' = Append(decoded, TryFrom(plain[Len(decoded) + 1]))
    /\ UNCHANGED <<writerVars, target, arg, encoded, reader, plain>>

(***************************************************************************)
(* One record through Record::encode and back: the bytes are laid out as   *)
(* the writer lays them out, the file header and then the frame.           *)
(***************************************************************************)
\* the records given to Record::encode
TestIds ==
    {U32(1), U32(255), U32(256), <<0, 0, 1, 0>>, <<255, 255, 255, 255>>}
TargetIds == TestIds \cup {U32(0)}
TestTimes ==
    {U64(0), U64(255), U64(256), <<0, 0, 0, 0, 0, 0, 0, 1>>,
     <<255, 255, 255, 255, 255, 255, 255, 255>>}
PayloadSizes == {0, 1, 255, 256, 65536}
Payload(n) == [i \in 1..n |-> i % 256]
\* "", "X", "e" with an acute accent (two bytes), and 256 times "a"
Strings == {<<>>, <<88>>, <<195, 169>>, [i \in 1..256 |-> 97]}

TestRecords ==
    {Record(i, t, Data(Payload(n))) :
        i \in TestIds, t \in TestTimes, n \in PayloadSizes}
    \cup {Record(i, t, Finish) : i \in TargetIds, t \in TestTimes}
    \cup {Record(i, t, SetMetadata(m)) :
            i \in TargetIds, t \in TestTimes, m \in Strings}
    \cup {Record(i, t, Start(n, y, m)) :
            i \in TargetIds, t \in TestTimes,
            n \in Strings, y \in Strings, m \in Strings}

InitFrame ==
    /\ WriterFresh(U32(1))
    /\ target \in USIZE_BITS
    /\ arg \in TestRecords
    /\ encoded = <<>>
    /\ decoded = <<>>
    /\ reader = [st |-> "none"]
    /\ plain = <<>>

\* arg.encode(), behind the file header
EncodeRecord ==
    /\ reader.st = "none"
    /\ encoded' = FileHeader \o Encode(arg)
    /\ reader' = [st |-> "source"]
    /\ UNCHANGED <<writerVars, target, arg, decoded, plain>>

NextFrame ==
    \/ EncodeRecord
    \/ Open
    \/ ReadNext
    \/ Convert

SpecFrame == InitFrame /\ [][NextFrame]_vars

(***************************************************************************)
(* The head of a data frame (control byte, id, size, timestamp) for        *)
(* payloads of every length a Box<[u8]> can have, the ones too large to    *)
(* write down included: the head depends on the payload's length only.     *)
(***************************************************************************)
\* data.len() as u64: 0, 1, 256^k - 1 and 256^k up to 2^32, 256^5, 256^6,
\* 256^7 and isize::MAX of a 64-bit build
TestLens ==
    {U64(0), U64(1), U64(255), MAX_ONE_BYTE, U64(65535), MAX_TWO_BYTES,
     <<255, 255, 255, 0, 0, 0, 0, 0>>, MAX_THREE_BYTES,
     <<255, 255, 255, 127, 0, 0, 0, 0>>, <<255, 255, 255, 255, 0, 0, 0, 0>>,
     MAX_FOUR_BYTES, MAX_FIVE_BYTES, MAX_SIX_BYTES, MAX_SEVEN_BYTES,
     <<255, 255, 255, 255, 255, 255, 255, 127>>}

\* the lengths a slice can have on a build: at most isize::MAX bytes
FitsSlice(len, bits) ==
    IF bits = 32
    THEN len[4] < 128 /\ \A i \in 5..8 : len[i] = 0
    ELSE len[8] < 128

InitHead ==
    /\ WriterFresh(U32(1))
    /\ target \in USIZE_BITS
    /\ arg \in {a \in [id : TestIds, timestamp : TestTimes, len : TestLens] :
                  FitsSlice(a.len, target)}
    /\ encoded = <<>>
    /\ decoded = <<>>
    /\ reader = [st |-> "none"]
    /\ plain = <<>>

\* Record::encode of a Data record of arg.len bytes, up to its payload
EncodeHead ==
    /\ encoded = <<>>
    /\ encoded' = EncodeDataHead(arg.id, arg.timestamp, arg.len)
    /\ UNCHANGED <<writerVars, target, arg, decoded, reader, plain>>

\* next() on the frame, up to its payload
DecodeHead ==
    /\ encoded # <<>>
    /\ decoded = <<>>
    /\ decoded' = <<ReaderNextFields(encoded, 1)>>
    /\ UNCHANGED <<writerVars, target, arg, encoded, reader, plain>>

NextHead ==
    \/ EncodeHead
    \/ DecodeHead

SpecHead == InitHead /\ [][NextHead]_vars

(***************************************************************************)
(* entrytypes.rs: the primitive-array wrappers.  A client holds a typed    *)
(* array and calls update_with_timestamp on a handle whose id is 1.        *)
(* An i64 is an integer, an f32 is its bit pattern (to_bits) as an i32, an *)
(* f64 is its bit pattern as two 32-bit words.                             *)
(***************************************************************************)
MaxElems == 3

\* u8::from(item) of a bool
U8FromBool(item) == IF item THEN 1 ELSE 0

\* item.to_le_bytes() of an i64: two's complement, low byte first
I64ToLe(item) == LEBytes(item, 8)

\* item.to_le_bytes() of an f32
F32ToLe(item) == LEBytes(item, 4)

\* item.to_le_bytes() of an f64
F64ToLe(item) == LEBytes(item.lo, 4) \o LEBytes(item.hi, 4)

\* BooleanArrayEntry: tmp has data.len() bytes, tmp[i] = u8::from(data[i])
BooleanArrayPayload(data) == [i \in 1..Len(data) |-> U8FromBool(data[i])]

\* I64ArrayEntry: dest has data.len() * 4 bytes, and the loop stores
\* encoded[0], encoded[1], encoded[2], encoded[3] of every item
I64ArrayPayload(data) ==
    [i \in 1..(Len(data) * 4) |->
        I64ToLe(data[((i - 1) \div 4) + 1])[((i - 1) % 4) + 1]]

\* F32ArrayEntry: dest has data.len() * 4 bytes, four bytes stored per item
F32ArrayPayload(data) ==
    [i \in 1..(Len(data) * 4) |->
        F32ToLe(data[((i - 1) \div 4) + 1])[((i - 1) % 4) + 1]]

\* F64ArrayEntry: dest has data.len() * 8 bytes, eight bytes stored per item
F64ArrayPayload(data) ==
    [i \in 1..(Len(data) * 8) |->
        F64ToLe(data[((i - 1) \div 8) + 1])[((i - 1) % 8) + 1]]

\* the payload the wrapper of a type name hands to log_data_with_timestamp
ArrayPayload(type, data) ==
    CASE type = "boolean[]" -> BooleanArrayPayload(data)
      [] type = "int64[]" -> I64ArrayPayload(data)
      [] type = "float[]" -> F32ArrayPayload(data)
      [] type = "double[]" -> F64ArrayPayload(data)

\* the values given to the wrappers: -1, 2^31 - 1 and -2^31 as i64;
\* 0.0, 1.0, -2.0 and f32::MAX; 0.0, 1.0, 0.1 and -2.0 as f64
TestBools == {TRUE, FALSE}
TestI64s == {0, 1, -1, 2147483647, -2147483647 - 1}
TestF32s == {0, 1065353216, -1073741824, 2139095039}
TestF64s ==
    {[hi |-> 0, lo |-> 0], [hi |-> 1072693248, lo |-> 0],
     [hi |-> 1069128089, lo |-> -1717986918], [hi |-> -1073741824, lo |-> 0]}

ElementsOf(type) ==
    CASE type = "boolean[]" -> TestBools
      [] type = "int64[]" -> TestI64s
      [] type = "float[]" -> TestF32s
      [] type = "double[]" -> TestF64s

ArrayTypes == {"boolean[]", "int64[]", "float[]", "double[]"}

TestArrays ==
    UNION {{[type |-> type, data |-> data, timestamp |-> U64(0)] :
               data \in UNION {[1..n -> ElementsOf(type)] : n \in 0..MaxElems}} :
           type \in ArrayTypes}

InitArray ==
    /\ WriterFresh(U32(1))
    /\ target = 64
    /\ arg \in TestArrays
    /\ encoded = <<>>
    /\ decoded = <<>>
    /\ reader = [st |-> "none"]
    /\ plain = <<>>

\* update_with_timestamp(arg.data, arg.timestamp) on the handle of id 1:
\* the wrapper builds the payload, log_data_with_timestamp encodes the record
UpdateArray ==
    /\ encoded = <<>>
    /\ LET dest == ArrayPayload(arg.type, arg.data)
           record == Record(U32(1), arg.timestamp, Data(dest))
       IN  encoded' = Encode(record)
    /\ UNCHANGED <<writerVars, target, arg, decoded, reader, plain>>

NextArray == UpdateArray

SpecArray == InitArray /\ [][NextArray]_vars

(***************************************************************************)
(* The reader on byte sources that are not what a writer left: headers     *)
(* with a byte changed or cut short, and streams cut inside a frame.       *)
(***************************************************************************)
\* the longest stream of frames given to the reader
MaxStreamFrames == 3

\* a frame to follow a header
OneFrame == Encode(Record(U32(1), U64(0), Data(<<65>>)))

\* the file header, alone or before a frame, whole or with one byte set to
\* 0, 1 or 255, and every prefix of the file header
HeaderSources ==
    {SubSeq(FileHeader, 1, n) : n \in 0..Len(FileHeader)}
    \cup {[(FileHeader \o rest) EXCEPT ![i] = b] :
            rest \in {<<>>, OneFrame}, i \in 1..Len(FileHeader), b \in {0, 1, 255}}

\* the records of the streams: a Start, a Data record with a two-byte
\* timestamp, a SetMetadata and a Finish
StreamRecords ==
    {Record(U32(1), U64(0), Start(<<88>>, <<105, 54, 52>>, <<>>)),
     Record(U32(1), U64(256), Data(<<65, 66>>)),
     Record(U32(1), U64(0), SetMetadata(<<123, 125>>)),
     Record(U32(1), U64(0), Finish)}

\* the frames of a sequence of records, one after the other
RECURSIVE EncodeAll(_, _)
EncodeAll(recs, n) ==
    IF n = 0 THEN <<>> ELSE EncodeAll(recs, n - 1) \o Encode(recs[n])

\* a stream of k records with its last `cut` bytes removed, the cut falling
\* inside the last frame or, with cut = 0, nowhere
CutStream(recs, cut) ==
    LET whole == FileHeader \o EncodeAll(recs, Len(recs))
    IN  SubSeq(whole, 1, Len(whole) - cut)

InitReader ==
    /\ WriterFresh(U32(1))
    /\ target \in USIZE_BITS
    /\ \/ /\ arg = [records |-> <<>>, cut |-> 0]
          /\ encoded \in HeaderSources
       \/ \E k \in 1..MaxStreamFrames : \E recs \in [1..k -> StreamRecords] :
            \E cut \in 0..(Len(Encode(recs[k])) - 1) :
                /\ arg = [records |-> recs, cut |-> cut]
                /\ encoded = CutStream(recs, cut)
    /\ decoded = <<>>
    /\ reader = [st |-> "source"]
    /\ plain = <<>>

NextReader ==
    \/ Open
    \/ ReadNext

SpecReader == InitReader /\ [][NextReader]_vars

(***************************************************************************)
(* try_from on raw frames a client builds itself (the fields of            *)
(* PlainRecord are public): control payloads whole, cut short, with the    *)
(* tag changed and with a length prefix overwritten.                       *)
(***************************************************************************)
\* the payloads of a Start, a Finish and a SetMetadata record of entry 1
GoodPayloads ==
    {ControlPayload(U32(1), Start(<<88>>, <<105, 54, 52>>, <<123, 125>>)),
     ControlPayload(U32(1), Finish),
     ControlPayload(U32(1), SetMetadata(<<123, 125>>))}

\* tag bytes: the three kinds and two that are none
Tags == {0, 1, 2, 3, 255}

\* values written over 4 bytes of a payload: ptr + length passes 2^32 on a
\* 32-bit build for the first two where ptr is 9, and stays below it for
\* the third; then lengths of 3, 255 and 2^24
Lengths ==
    {<<255, 255, 255, 255>>, <<247, 255, 255, 255>>, <<246, 255, 255, 255>>,
     <<3, 0, 0, 0>>, <<255, 0, 0, 0>>, <<0, 0, 0, 1>>}

Overwrite(p, i, v) ==
    [j \in 1..Len(p) |-> IF j \in i..(i + 3) THEN v[j - i + 1] ELSE p[j]]

TestPayloads ==
    UNION {{SubSeq([p EXCEPT ![1] = t], 1, n) : t \in Tags, n \in 0..Len(p)}
            \cup {Overwrite(p, i, v) : i \in 6..(Len(p) - 3), v \in Lengths} :
           p \in GoodPayloads}

TestPlain ==
    [id : {U32(0), U32(1), U32(256), <<0, 0, 0, 1>>},
     timestamp : {U64(0), U64(256)},
     data : TestPayloads]

InitTryFrom ==
    /\ WriterFresh(U32(1))
    /\ target \in USIZE_BITS
    /\ arg \in TestPlain
    /\ encoded = <<>>
    /\ decoded = <<>>
    /\ reader = [st |-> "none"]
    /\ plain = <<arg>>

NextTryFrom == Convert

SpecTryFrom == InitTryFrom /\ [][NextTryFrom]_vars

(***************************************************************************)
(* What the claims speak of.                                               *)
(***************************************************************************)
IsPrefix(a, b) == Len(a) <= Len(b) /\ a = SubSeq(b, 1, Len(a))

\* the records a reader gets from the bytes in the sink: the frames of the
\* streaming reader, each converted with TryFrom
StreamOf(src) ==
    LET opened == new_raw(src)
        frames == IF opened.ok THEN ReadAll(src, opened.pos) ELSE <<>>
    IN  [i \in 1..Len(frames) |-> TryFrom(frames[i])]

Stream == StreamOf(sink)

\* the records of a stream that are about entry `entry_id`, in stream order
RECURSIVE RecordsOf(_, _, _)
RecordsOf(stream, entry_id, i) ==
    IF i > Len(stream) THEN <<>>
    ELSE IF stream[i].ok /\ stream[i].rec.id = entry_id
    THEN <<stream[i].rec>> \o RecordsOf(stream, entry_id, i + 1)
    ELSE RecordsOf(stream, entry_id, i + 1)

\* among them, those of the logging calls
IsLogged(rec) == rec.info.kind \in {"Data", "SetMetadata"}

LoggedOf(stream, entry_id) == SelectSeq(RecordsOf(stream, entry_id, 1), IsLogged)

\* the position of Stop in the history of sends, 0 while join has not sent it
RECURSIVE FindStop(_)
FindStop(i) ==
    IF i > Len(sent) THEN 0
    ELSE IF sent[i].tag = "Stop" THEN i
    ELSE FindStop(i + 1)

StopAt == FindStop(1)

\* the bytes of the frames enqueued before Stop, in enqueue order
RECURSIVE FramesBefore(_)
FramesBefore(n) ==
    IF n = 0 THEN <<>> ELSE FramesBefore(n - 1) \o sent[n].data

AllIds == {entries[c].id : c \in 1..Len(entries)}

(***************************************************************************)
(* The claims.                                                             *)
(***************************************************************************)

C2_JoinDrains ==
    joinResult = "Ok" =>
        /\ worker = "exited"
        /\ flushed
        /\ StopAt > 0
        /\ sink = FileHeader \o FramesBefore(StopAt - 1)

\* C2 witness: join returned Ok after three frames were enqueued before Stop.
C2_Witness == joinResult = "Ok" /\ StopAt > 3

\* C3: once join has returned, a logging call on a live handle returns the
\* channel's error, enqueues nothing and the sink takes no more bytes.
C3_PostCloseFails ==
    [][owner = "closed" =>
          /\ sink' = sink
          /\ queue' = queue
          /\ (\E c \in 1..Len(entries) : entries'[c].ncalls # entries[c].ncalls)
                => last'.result = "Err"]_vars

\* C3 witness: a logging call made after join returned Ok has failed.
C3_Witness ==
    /\ joinResult = "Ok"
    /\ last.op # "none"
    /\ last.phase = "closed"
    /\ last.result = "Err"

\* C4 (as claimed): every logging call issued after join has enqueued Stop
\* returns the channel's error, also while the worker has not consumed Stop.
C4_ClosingCallsFail ==
    (last.op # "none" /\ last.phase # "open") => last.result = "Err"

\* C5: nothing enqueued after Stop is written: once Stop is enqueued the sink
\* holds the header and a prefix of the frames enqueued before Stop.
C5_NothingAfterStop ==
    StopAt > 0 => IsPrefix(sink, FileHeader \o FramesBefore(StopAt - 1))

\* C5 witness: a frame was enqueued behind Stop and the worker has taken Stop.
C5_Witness ==
    /\ StopAt > 0
    /\ Len(sent) > StopAt
    /\ worker = "exited"

\* C6: under every interleaving, the ids given to N make_entry calls are
\* pairwise distinct and are exactly 1..N.
C6_IdsAreOneToN ==
    /\ \A c, d \in 1..Len(entries) : c # d => entries[c].id # entries[d].id
    /\ AllIds = {U32(n) : n \in 1..Len(entries)}

\* C6 witness: two make_entry calls overlapped, the later one sending its
\* Start first, and both returned their handles.
C6_Witness ==
    /\ Len(entries) = 2
    /\ \A c \in 1..2 : entries[c].st = "live"
    /\ \E timestamp \in Times :
         sent[1] = Msg(Encode(Record(entries[2].id, timestamp,
                     Start(entries[2].name, entries[2].type, entries[2].metadata))))

\* C7 (as claimed): over the writer's lifetime no id is handed out twice and
\* id 0 is never handed out.
C7_NoReuseNoZero ==
    /\ \A c, d \in 1..Len(entries) : c # d => entries[c].id # entries[d].id
    /\ \A c \in 1..Len(entries) :
         entries[c].st \in {"live", "dropped"} => entries[c].id # U32(0)

\* C8: an entry created and dropped before join begins, never logged to,
\* has after a successful join exactly two records in the stream: its Start
\* with the name, type and metadata given, then its Finish.
C8_Lifecycle ==
    joinResult = "Ok" =>
        LET stream == Stream
        IN  \A c \in 1..Len(entries) :
                LET e == entries[c]
                    recs == RecordsOf(stream, e.id, 1)
                IN  (e.st = "dropped" /\ e.dropPhase = "open" /\ e.ncalls = 0) =>
                        /\ Len(recs) = 2
                        /\ recs[1].info = Start(e.name, e.type, e.metadata)
                        /\ recs[2].info = Finish

\* C8 witness: join returned Ok with such an entry.
C8_Witness ==
    /\ joinResult = "Ok"
    /\ \E c \in 1..Len(entries) :
         /\ entries[c].st = "dropped"
         /\ entries[c].dropPhase = "open"
         /\ entries[c].ncalls = 0

\* C9: in the written stream every Data or SetMetadata record of an id comes
\* after the Start of that id and before its Finish, and an id has at most
\* one Start and at most one Finish.
C9_StartDataFinish ==
    LET stream == Stream
    IN  \A entry_id \in AllIds :
            LET recs == RecordsOf(stream, entry_id, 1)
                starts == {i \in 1..Len(recs) : recs[i].info.kind = "Start"}
                finishes == {i \in 1..Len(recs) : recs[i].info.kind = "Finish"}
            IN  /\ Cardinality(starts) <= 1
                /\ Cardinality(finishes) <= 1
                /\ \A i \in 1..Len(recs) :
                     IsLogged(recs[i]) =>
                         /\ \E j \in starts : j < i
                         /\ \A j \in finishes : i < j

\* C9 witness: the stream holds the Start, a logged record and the Finish of
\* one id.
C9_Witness ==
    \E entry_id \in AllIds :
        LET recs == RecordsOf(Stream, entry_id, 1)
        IN  /\ Len(recs) >= 3
            /\ recs[1].info.kind = "Start"
            /\ IsLogged(recs[2])
            /\ recs[Len(recs)].info.kind = "Finish"

\* C10: after a failed write or flush the worker is gone for good and no
\* further byte reaches the sink, and a join that returns then returns Err.
C10_SinkFailureIsFatal ==
    [][/\ worker = "panicked" => (worker' = "panicked" /\ sink' = sink)
       /\ (worker' = "panicked" /\ owner' = "closed") => joinResult' = "Err"]_vars

\* C10 witness: the sink failed after join had enqueued Stop, frames were
\* left unwritten, and join returned Err.
C10_Witness ==
    /\ worker = "panicked"
    /\ StopAt > 0
    /\ Len(sink) < Len(FileHeader \o FramesBefore(StopAt - 1))
    /\ joinResult = "Err"

\* the least L in 1..8 with num < 256^L: the bytes above L are all zero and,
\* unless L is 1, byte L is not
MinLen(num) ==
    CHOOSE L \in 1..8 :
        /\ \A i \in (L + 1)..8 : num[i] = 0
        /\ L = 1 \/ num[L] # 0

\* C11: encode_int(n) is the little-endian representation of n in exactly
\* MinLen(n) bytes, and read_variable_int of that many bytes gives n back.
C11_EncodeIntMinimal ==
    /\ encoded # <<>> =>
         /\ Len(encoded) = MinLen(arg)
         /\ \A i \in 1..Len(encoded) : encoded[i] = arg[i]
    /\ decoded # <<>> =>
         /\ decoded[1].ok
         /\ decoded[1].value = arg
         /\ decoded[1].pos = Len(encoded) + 1

\* C11 witness: 256^7, the least value that takes 8 bytes, was encoded and
\* read back.
C11_Witness ==
    /\ arg = <<0, 0, 0, 0, 0, 0, 0, 1>>
    /\ Len(encoded) = 8
    /\ decoded # <<>>

\* C12: a record encoded with Record::encode, decoded by the reader's next()
\* and converted with try_from comes back equal in id, timestamp, kind and
\* payload fields, and the reader finds that one frame and no other.
C12_FrameRoundTrip ==
    /\ reader.st \notin {"failed"}
    /\ reader.st = "ended" => Len(plain) = 1
    /\ decoded # <<>> =>
         /\ decoded[1].ok
         /\ decoded[1].rec.id = arg.id
         /\ decoded[1].rec.timestamp = arg.timestamp
         /\ decoded[1].rec.info = arg.info

\* C12 witness: a Data record with the largest id, an 8-byte timestamp and a
\* payload of 256 bytes made the round trip on a 32-bit build.
C12_Witness ==
    /\ reader.st = "ended"
    /\ decoded # <<>>
    /\ target = 32
    /\ arg.info.kind = "Data"
    /\ Len(arg.info.data) = 256
    /\ arg.id = <<255, 255, 255, 255>>
    /\ arg.timestamp[8] = 255

\* whether new_raw has been called on the source
Opened == reader.st \in {"open", "ended", "failed"}

\* C13: on a source of at least 6 bytes that do not spell "WPILOG" opening
\* fails with Invalid Header; with the magic right and 2 more bytes that are
\* not 0x0100 it fails with Invalid Version; with magic, version and an
\* extra-header length of 0 it succeeds with an empty extra_header; and a
\* failure leaves no reader (no position, no extra_header, no frame read).
C13_HeaderValidation ==
    Opened =>
        LET magic == Len(encoded) >= 6
                        /\ SubSeq(encoded, 1, 6) = <<87, 80, 73, 76, 79, 71>>
            version == Len(encoded) >= 8 /\ SubSeq(encoded, 7, 8) = <<0, 1>>
        IN  /\ (Len(encoded) >= 6 /\ ~magic) =>
                    reader = [st |-> "failed", err |-> "Invalid Header"]
            /\ (magic /\ Len(encoded) >= 8 /\ ~version) =>
                    reader = [st |-> "failed", err |-> "Invalid Version"]
            /\ (magic /\ version /\ Len(encoded) >= 12
                    /\ SubSeq(encoded, 9, 12) = <<0, 0, 0, 0>>) =>
                    reader.st # "failed" /\ reader.extra_header = <<>>
            /\ reader.st = "failed" =>
                    DOMAIN reader = {"st", "err"} /\ plain = <<>>

\* C13 witness: a source with the right magic, version 0x0101 and a frame
\* behind the header was refused for its version.
C13_Witness ==
    /\ reader = [st |-> "failed", err |-> "Invalid Version"]
    /\ SubSeq(encoded, 1, 8) = <<87, 80, 73, 76, 79, 71, 1, 1>>
    /\ Len(encoded) > 12

\* the raw frame a record is written as: id 0 and the control payload for a
\* control record, the id and the bytes for a data record
PlainOf(rec) ==
    IF IsControl(rec.info)
    THEN [id |-> U32(0), timestamp |-> rec.timestamp,
          data |-> ControlPayload(rec.id, rec.info)]
    ELSE [id |-> rec.id, timestamp |-> rec.timestamp, data |-> rec.info.data]

\* C14: of a stream of k frames cut inside its last frame the reader yields
\* the first k - 1 frames unchanged and then ends; opening does not fail and
\* nothing but the end of the sequence tells the consumer of the cut.
C14_TruncationLenient ==
    (Len(arg.records) > 0 /\ arg.cut > 0) =>
        LET whole == [i \in 1..(Len(arg.records) - 1) |-> PlainOf(arg.records[i])]
        IN  /\ reader.st # "failed"
            /\ IsPrefix(plain, whole)
            /\ reader.st = "ended" => plain = whole

\* C14 witness: a stream of 3 frames lost its last 2 bytes and the reader
\* ended after 2 frames.
C14_Witness ==
    /\ Len(arg.records) = 3
    /\ arg.cut = 2
    /\ reader.st = "ended"
    /\ Len(plain) = 2

\* the conversions made: decoded[i] is what try_from(plain[i]) returned
Converted == DOMAIN decoded

\* C15 (as claimed): a raw frame with id 0 whose tag is none of 0, 1, 2 is
\* refused with Invalid Control Record Type whenever its payload has at
\* least 1 byte.
C15_UnknownTagAnyLength ==
    \A i \in Converted :
        (plain[i].id = <<0, 0, 0, 0>> /\ Len(plain[i].data) >= 1
            /\ plain[i].data[1] \notin {0, 1, 2}) =>
            decoded[i] = [ok |-> FALSE, err |-> "Invalid Control Record Type"]

\* C15 (amended): it is refused with Invalid Control Record Type whenever
\* its payload has at least 5 bytes, the tag and the target id; with 1 to 4
\* bytes it is refused for the missing id before the tag is looked at.
C15_UnknownTagRejected ==
    \A i \in Converted :
        (plain[i].id = <<0, 0, 0, 0>> /\ Len(plain[i].data) >= 1
            /\ plain[i].data[1] \notin {0, 1, 2}) =>
            decoded[i] = [ok |-> FALSE,
                          err |-> IF Len(plain[i].data) >= 5
                                  THEN "Invalid Control Record Type"
                                  ELSE "Not enough data for entry id"]

\* C15 witness: a payload of 23 bytes with tag 255 was refused for its tag.
C15_Witness ==
    /\ decoded = <<[ok |-> FALSE, err |-> "Invalid Control Record Type"]>>
    /\ Len(plain[1].data) = 23
    /\ plain[1].data[1] = 255

\* whether k length-prefixed strings lie within the payload from ptr on
RECURSIVE StringsFit(_, _, _)
StringsFit(data, ptr, k) ==
    \/ k = 0
    \/ /\ Len(data) >= ptr + 4
       /\ \A j \in 3..4 : data[ptr + j] = 0
       /\ LET length == data[ptr + 1] + 256 * data[ptr + 2]
          IN  /\ Len(data) >= ptr + 4 + length
              /\ StringsFit(data, ptr + 4 + length, k - 1)

\* a control payload shorter than its tag requires: no room for tag and id,
\* or for the three strings of a Start or the one of a SetMetadata
TooShort(data) ==
    \/ Len(data) < 5
    \/ data[1] = 0 /\ ~StringsFit(data, 5, 3)
    \/ data[1] = 2 /\ ~StringsFit(data, 5, 1)

\* C16 (as claimed): converting a raw frame with id 0 whose payload is
\* shorter than its tag requires returns an error value.
C16_ShortPayloadIsError ==
    \A i \in Converted :
        (plain[i].id = <<0, 0, 0, 0>> /\ TooShort(plain[i].data)) =>
            ~decoded[i].ok /\ "err" \in DOMAIN decoded[i]

\* C17: converting a raw frame with a non-zero id gives a Data record with
\* that id, that timestamp and the payload as it is.
C17_DataUntouched ==
    \A i \in Converted :
        plain[i].id # <<0, 0, 0, 0>> =>
            /\ decoded[i].ok
            /\ decoded[i].rec.id = plain[i].id
            /\ decoded[i].rec.timestamp = plain[i].timestamp
            /\ decoded[i].rec.info = [kind |-> "Data", data |-> plain[i].data]

\* C17 witness: a frame of id 2^24, whose low byte is 0, with the payload of
\* a Start record was converted to a Data record.
C17_Witness ==
    /\ decoded # <<>>
    /\ plain[1].id = <<0, 0, 0, 1>>
    /\ plain[1].data \in GoodPayloads
    /\ plain[1].data[1] = 0
    /\ decoded[1].rec.info.kind = "Data"

\* C18: under the scheduling of SpecLive, a join that has sent Stop and
\* waits for the worker returns, with Ok or Err, whatever the producers do
\* meanwhile (a join whose send of Stop fails returns in that same step).
C18_CloseReturns == (owner = "closing") ~> (owner = "closed")

\* C18 witness: join returned although a producer enqueued a record behind
\* Stop while join was waiting.
C18_Witness ==
    /\ owner = "closed"
    /\ joinResult # "none"
    /\ StopAt > 0
    /\ Len(sent) > StopAt
    /\ last.op # "none"
    /\ last.phase = "closing"

\* what a frame reads back as: next() on its bytes, then try_from
ReadBack(data) ==
    LET item == ReaderNext(data, 1)
    IN  IF item.some /\ item.pos = Len(data) + 1 THEN TryFrom(item.rec)
        ELSE [ok |-> FALSE, err |-> "no frame"]

\* C19: a step that drops a live handle after join has returned changes
\* neither the sink nor the channel; one taken while the writer is open and
\* its worker runs adds to the channel exactly one message, a frame that
\* reads back as the Finish record of the handle's id.  The drop can always
\* be taken: no state of the writer or of the worker holds it up.
C19_DropIsBestEffort ==
    [][/\ Live # {} => ENABLED DropEntry
       /\ \A c \in 1..Len(entries) :
            (entries[c].st = "live" /\ entries'[c].st = "dropped") =>
                /\ owner = "closed" =>
                      sink' = sink /\ queue' = queue /\ sent' = sent
                /\ (owner = "open" /\ worker = "running") =>
                      /\ queue' = Append(queue, sent'[Len(sent')])
                      /\ Len(sent') = Len(sent) + 1
                      /\ SubSeq(sent', 1, Len(sent)) = sent
                      /\ sink' = sink
                      /\ \E timestamp \in Times :
                           ReadBack(sent'[Len(sent')].data) =
                              [ok |-> TRUE,
                               rec |-> Record(entries[c].id, timestamp, Finish)]
      ]_vars

\* C19 witness: a handle was dropped after join returned Ok, and the sink
\* holds what it held when join returned.
C19_Witness ==
    /\ joinResult = "Ok"
    /\ \E c \in 1..Len(entries) :
         entries[c].st = "dropped" /\ entries[c].dropPhase = "closed"
    /\ sink = FileHeader \o FramesBefore(StopAt - 1)
    /\ queue = <<>>

\* the records the writer has built: the Start of every make_entry call, what
\* the logging calls enqueued, and a Finish for every handle
WriterRecords ==
    UNION {{Record(entries[c].id, timestamp, info) :
                timestamp \in Times,
                info \in {Start(entries[c].name, entries[c].type,
                                entries[c].metadata), Finish}}
            \cup {entries[c].issued[k] : k \in 1..Len(entries[c].issued)} :
           c \in 1..Len(entries)}

\* C20: after a join that returned Ok, a reader opened on the sink has an
\* empty extra header and yields as many frames as were enqueued before
\* Stop, the i-th converting to the record the writer encoded into the i-th
\* message it enqueued.
C20_EndToEnd ==
    joinResult = "Ok" =>
        LET opened == new_raw(sink)
            got == ReadAll(sink, opened.pos)
        IN  /\ opened.ok
            /\ opened.extra_header = <<>>
            /\ Len(got) = StopAt - 1
            /\ \A i \in 1..Len(got) :
                 \E rec \in WriterRecords :
                    /\ sent[i] = Msg(Encode(rec))
                    /\ TryFrom(got[i]) = [ok |-> TRUE, rec |-> rec]

\* C20 witness: join returned Ok with four records before Stop: the Start of
\* a handle, two logged records and its Finish.
C20_Witness ==
    /\ joinResult = "Ok"
    /\ StopAt = 5
    /\ \E c \in 1..Len(entries) :
         /\ entries[c].st = "dropped"
         /\ entries[c].dropPhase = "open"
         /\ Len(entries[c].issued) = 2

(***************************************************************************)
(* C21: every primitive-array wrapper logs, for an array of n elements,    *)
(* a payload that is the concatenation of each element's fixed             *)
(* little-endian encoding in order (1, 8, 4 and 8 bytes per element for    *)
(* boolean[], int64[], float[] and double[]), so that the payload has      *)
(* n times the element width bytes and no element byte is lost.            *)
(***************************************************************************)
\* the element width the format gives to an array type
ElementWidth(type) ==
    CASE type = "boolean[]" -> 1
      [] type = "int64[]" -> 8
      [] type = "float[]" -> 4
      [] type = "double[]" -> 8

\* the fixed little-endian encoding of one element
ElementBytes(type, item) ==
    CASE type = "boolean[]" -> <<U8FromBool(item)>>
      [] type = "int64[]" -> I64ToLe(item)
      [] type = "float[]" -> F32ToLe(item)
      [] type = "double[]" -> F64ToLe(item)

RECURSIVE ConcatElements(_, _)
ConcatElements(type, data) ==
    IF data = <<>> THEN <<>>
    ELSE ElementBytes(type, Head(data)) \o ConcatElements(type, Tail(data))

\* the payload of the frame the wrapper sent
LoggedPayload == ReaderNext(encoded, 1).rec.data

C21_ArrayPayloadWhole ==
    encoded # <<>> =>
        /\ LoggedPayload = ConcatElements(arg.type, arg.data)
        /\ Len(LoggedPayload) = Len(arg.data) * ElementWidth(arg.type)

(***************************************************************************)
(* C22: for every Data record the field lengths recorded in the control    *)
(* byte (id length in bits 0-1, size length in bits 2-3, timestamp length  *)
(* in bits 4-6) equal the number of bytes emitted for each field, for      *)
(* every payload size and timestamp, payload sizes of 2^32 bytes or more   *)
(* included; hence the frame decoder recovers the same id, size and        *)
(* timestamp.                                                              *)
(***************************************************************************)
C22_ControlByteLengths ==
    /\ encoded # <<>> =>
         LET bitfield == encoded[1]
             id_length == (bitfield % 4) + 1
             size_length == ((bitfield \div 4) % 4) + 1
             timestamp_length == ((bitfield \div 16) % 8) + 1
         IN  /\ bitfield < 128
             /\ id_length = Len(encode_int(U32ToU64(arg.id)))
             /\ size_length = Len(encode_int(arg.len))
             /\ timestamp_length = Len(encode_int(arg.timestamp))
             /\ Len(encoded) = 1 + id_length + size_length + timestamp_length
    /\ decoded # <<>> =>
         /\ decoded[1].some
         /\ decoded[1].id = arg.id
         /\ decoded[1].size = arg.len
         /\ decoded[1].timestamp = arg.timestamp

(***************************************************************************)
(* C23: every Control record (Start, Finish, SetMetadata) is encoded as a  *)
(* frame whose id field is exactly one byte of value 0 and whose           *)
(* control-byte id-length bits (bits 0-1) are 0, whatever the target entry *)
(* id; the target id appears only inside the payload, as 4 little-endian   *)
(* bytes after the tag byte (0 = Start, 1 = Finish, 2 = SetMetadata).      *)
(***************************************************************************)
ControlTag(info) ==
    CASE info.kind = "Start" -> 0
      [] info.kind = "Finish" -> 1
      [] info.kind = "SetMetadata" -> 2

\* where the frame of arg starts in `encoded`
FrameStart == Len(FileHeader) + 1

C23_ControlFrameIdIsZero ==
    (reader.st # "none" /\ IsControl(arg.info)) =>
        LET fields == ReaderNextFields(encoded, FrameStart)
            payload == SubSeq(encoded, fields.pos, Len(encoded))
        IN  /\ encoded[FrameStart] % 4 = 0
            /\ encoded[FrameStart + 1] = 0
            /\ fields.some
            /\ fields.entry_length = 1
            /\ fields.id = U32(0)
            /\ fields.pos = FrameStart + 2 + fields.size_length
                              + fields.timestamp_length
            /\ fields.size = U64(Len(payload))
            /\ Len(payload) >= 5
            /\ payload[1] = ControlTag(arg.info)
            /\ SubSeq(payload, 2, 5) = arg.id

\* a SetMetadata record for the entry 2^32 - 1, at a timestamp of 8 bytes,
\* was encoded
C23_Witness ==
    /\ reader.st # "none"
    /\ arg.info.kind = "SetMetadata"
    /\ arg.info.metadata = <<195, 169>>
    /\ arg.id = <<255, 255, 255, 255>>
    /\ arg.timestamp = <<255, 255, 255, 255, 255, 255, 255, 255>>
    /\ target = 64

(***************************************************************************)
(* C24: in every reachable state of an open or closing writer, the sink's  *)
(* contents equal the 12-byte header followed by the concatenation of      *)
(* whole frames forming a prefix of the queue's enqueue order: frames of   *)
(* different producers are never byte-interleaved, skipped or duplicated.  *)
(***************************************************************************)
\* the first n messages enqueued are frames
AllMsg(n) == \A i \in 1..n : sent[i].tag = "Msg"

\* as stated: whole frames only
C24_SinkIsWholeFrames ==
    owner \in {"open", "closing"} =>
        \E n \in 0..Len(sent) :
            /\ AllMsg(n)
            /\ sink = FileHeader \o FramesBefore(n)

\* the messages the worker has taken from the queue, and the frames among
\* them (Stop, once taken, is the last one taken)
Taken == Len(sent) - Len(queue)
TakenFrames == IF StopAt # 0 /\ StopAt <= Taken THEN Taken - 1 ELSE Taken

\* the frame the worker took last reached the sink in part
CutFrame ==
    /\ worker = "panicked"
    /\ TakenFrames >= 1
    /\ \E n \in 0..(Len(sent[TakenFrames].data) - 1) :
         sink = FileHeader \o FramesBefore(TakenFrames - 1)
                    \o SubSeq(sent[TakenFrames].data, 1, n)

\* C24, amended: the sink holds the header and then, in enqueue order, every
\* frame the worker has taken, whole; only when a write on the sink failed
\* is the last of them cut short
C24_SinkIsFramesThenCut ==
    owner \in {"open", "closing"} =>
        /\ AllMsg(TakenFrames)
        /\ \/ sink = FileHeader \o FramesBefore(TakenFrames)
           \/ CutFrame
        /\ worker = "running" => sink = FileHeader \o FramesBefore(TakenFrames)

\* the writer is closing, two handles have sent records, and the worker has
\* written the Start records of both and a Data record, with more to write
C24_Witness ==
    /\ owner = "closing"
    /\ worker = "running"
    /\ Len(entries) = 2
    /\ Len(sent) >= 5
    /\ sent[1].tag = "Msg" /\ sent[2].tag = "Msg" /\ sent[3].tag = "Msg"
    /\ sent[1].data # sent[2].data
    /\ sink = FileHeader \o FramesBefore(3)
    /\ Len(queue) >= 2

(***************************************************************************)
(* C25: under concurrent make_entry calls, id allocation and the enqueue   *)
(* of the Start record happen as one atomic step: Start records appear in  *)
(* the written stream in strictly increasing order of their target id.     *)
(***************************************************************************)
IsStart(item) == item.ok /\ item.rec.info.kind = "Start"

C25_StartsInIdOrder ==
    \A i, j \in 1..Len(Stream) :
        (i < j /\ IsStart(Stream[i]) /\ IsStart(Stream[j]))
            => VecLt(Stream[i].rec.id, Stream[j].rec.id, 4)

====
